---- MODULE Spec2Model ----
(***************************************************************************)
(* Preference-pair (DPO) dataset of h2o-llmstudio:                         *)
(*   llm_studio/src/datasets/text_dpo_language_modeling_ds.py              *)
(* and the batch log-probability scorer exercised by                       *)
(*   tests/models/test_dpo_causal_language_modeling_model.py               *)
(*                                                                         *)
(* Tensors are sequences (1-based here, 0-based in the source).  A text is *)
(* modelled by the id sequence its untruncated encoding yields.            *)
(***************************************************************************)
EXTENDS Integers, Sequences, FiniteSets, TLC

VARIABLES
    cfg,              \* cfg.dataset / cfg.tokenizer fields read by the dataset
    tokenizer,        \* self.tokenizer: pad_token_id, eos_token_id
    df,               \* the DataFrame row handed to the constructor
    phase,            \* "new" | "ready" | "failed" (constructor raised)
    base_initialised, \* super().__init__ has run
    chosen_answers,   \* self.chosen_answers
    rejected_answer,  \* self.rejected_answer
    item,             \* the dict last returned by __getitem__, or NoItem
    lp,               \* scorer check: logits, labels, perturbation and results
    getitem_locals,   \* local variables of the last __getitem__ call, or NoLocals
    workers,          \* data-loading workers, each inside one __getitem__ call
    st                \* user settings: q.client, the secrets backends, the YAML file

vars == <<cfg, tokenizer, df, phase, base_initialised, chosen_answers,
          rejected_answer, item, lp, getitem_locals, workers, st>>

----------------------------------------------------------------------------
(* Bounds of the model *)

MaxMaxLength == 2     \* cfg.tokenizer.max_length ranges over 1..MaxMaxLength
MaxLengthAnswer == 2  \* cfg.tokenizer.max_length_answer ranges over 1..MaxLengthAnswer
MaxContextLen == 2    \* tokens of the chained prompt context
MaxTextLen == 2       \* tokens of a chosen / rejected response text
MaxSeqLen == 2        \* sequence length of the scorer's logits / labels
NumWorkers == 2       \* concurrent __getitem__ calls

TokenIds == {0, 1}    \* the vocabulary
PadIds == {0}         \* tokenizer.pad_token_id
LogitValues == {0, 2} \* values a logit takes
HugeLogits == {6}     \* the out-of-range value a perturbation injects (100 in
                      \* the test; small here to stay within 32-bit integers)

IgnoreIndex == -100   \* the ignore sentinel of the labels

Unset == <<>>                 \* an attribute the constructor has not set
NoItem == [no_item |-> TRUE]  \* no dict returned yet
NoLocals == [no_locals |-> TRUE]
NoWorkers == [no_workers |-> TRUE]
NoSettings == [no_settings |-> TRUE]

----------------------------------------------------------------------------
(* Sequence helpers: python slicing *)

Max2(a, b) == IF a >= b THEN a ELSE b

Min2(a, b) == IF a <= b THEN a ELSE b

\* s[:n] for n >= 0
Take(s, n) == SubSeq(s, 1, Min2(n, Len(s)))

\* s[-n:] for n >= 0 (python: s[-0:] is the whole of s)
LastN(s, n) == IF n = 0 \/ n >= Len(s) THEN s ELSE SubSeq(s, Len(s) - n + 1, Len(s))

\* s[:-1]
DropLast(s) == IF Len(s) = 0 THEN s ELSE SubSeq(s, 1, Len(s) - 1)

\* all sequences over S of length 0..n
SeqsUpTo(S, n) == UNION {[1..k -> S] : k \in 0..n}

Ones(n) == [i \in 1..n |-> 1]

\* s[mask != 0]: the elements of s at the positions where mask is non-zero
RECURSIVE SelectByMask(_, _)
SelectByMask(s, mask) ==
    IF Len(s) = 0 THEN <<>>
    ELSE IF Head(mask) # 0
         THEN <<Head(s)>> \o SelectByMask(Tail(s), Tail(mask))
         ELSE SelectByMask(Tail(s), Tail(mask))

\* positions with a non-zero attention mask
Attended(mask) == {i \in 1..Len(mask) : mask[i] # 0}

MaxOf(S) == CHOOSE m \in S : \A x \in S : x <= m

----------------------------------------------------------------------------
(* Base conversational dataset: encode and __getitem__ *)

\* encode(tokenizer, text, max_length, truncation_side="right")["input_ids"]
encode(text, max_length) == Take(text, max_length)

\* The padded label sequence of the prompt context.  The output of a terminal
\* record is empty, so only the end marker (when configured) follows the prompt;
\* the most recent max_length tokens are kept and the sequence is padded on
\* the left, so that its last position is the end marker that __getitem__ below
\* strips ("remove EOS from input ids").
BaseGetItem(c, tok, row) ==
    LET real == LastN(row.context \o (IF c.add_eos_token_to_answer
                                       THEN <<tok.eos_token_id>> ELSE <<>>),
                      c.max_length)
        n == Len(real)
        padLen == c.max_length - n
    IN [input_ids |-> [i \in 1..c.max_length |->
                          IF i > padLen THEN real[i - padLen] ELSE tok.pad_token_id],
        attention_mask |-> [i \in 1..c.max_length |-> IF i > padLen THEN 1 ELSE 0],
        labels |-> [i \in 1..c.max_length |->
                          IF c.add_eos_token_to_answer /\ i = c.max_length
                          THEN tok.eos_token_id ELSE IgnoreIndex]]

----------------------------------------------------------------------------
(* Preference-pair dataset *)

\* mutant: the mask taken from the ids, 0 wherever the id is the pad token id
right_pad_tokens_MaskByPadId(input_ids, attention_mask, max_length, pad_token_id) ==
    [input_ids |-> [i \in 1..max_length |->
                       IF i <= Len(input_ids) THEN input_ids[i] ELSE pad_token_id],
     attention_mask |-> [i \in 1..max_length |->
                       IF i <= Len(input_ids) /\ input_ids[i] # pad_token_id
                       THEN attention_mask[i] ELSE 0]]

\* mutant: padding on the left
right_pad_tokens_Left(input_ids, attention_mask, max_length, pad_token_id) ==
    LET padLen == max_length - Len(input_ids)
    IN [input_ids |-> [i \in 1..max_length |->
                          IF i > padLen THEN input_ids[i - padLen] ELSE pad_token_id],
        attention_mask |-> [i \in 1..max_length |->
                          IF i > padLen THEN attention_mask[i - padLen] ELSE 0]]

right_pad_tokens(input_ids, attention_mask, max_length, pad_token_id) ==
    [input_ids |-> [i \in 1..max_length |->
                       IF i <= Len(input_ids) THEN input_ids[i] ELSE pad_token_id],
     attention_mask |-> [i \in 1..max_length |->
                       IF i <= Len(input_ids) THEN attention_mask[i] ELSE 0]]

\* mutant: the last prompt token keeps its label
MaskPrompt_OffByOne(labels, promptLen) ==
    [i \in 1..Len(labels) |-> IF i < promptLen THEN IgnoreIndex ELSE labels[i]]

\* mutant: the prompt labels are left as they are
MaskPrompt_None(labels, promptLen) == labels

\* labels[: len(prompt_input_ids)] = -100
MaskPrompt(labels, promptLen) ==
    [i \in 1..Len(labels) |-> IF i <= promptLen THEN IgnoreIndex ELSE labels[i]]

\* mutant: no label is masked for being the pad token id
MaskPad_None(labels, pad_token_id) == labels

\* labels[labels == pad_token_id] = -100
MaskPad(labels, pad_token_id) ==
    [i \in 1..Len(labels) |-> IF labels[i] = pad_token_id THEN IgnoreIndex ELSE labels[i]]

\* mutant: the end marker's label is not put back
RestoreEos_Skip(labels, attention_mask, c, tok) == labels

\* labels[max(where(attention_mask != 0))] = eos_token_id, when configured
RestoreEos(labels, attention_mask, c, tok) ==
    IF c.add_eos_token_to_answer /\ Attended(attention_mask) # {}
    THEN [labels EXCEPT ![MaxOf(Attended(attention_mask))] = tok.eos_token_id]
    ELSE labels

\* mutant: the target length is the tokenizer max_length alone
PaddedLength_MaxLengthOnly(c, promptLen, chosenLen, rejectedLen) == c.max_length

\* mutant: the target length without the tokenizer max_length
PaddedLength_NoFloor(c, promptLen, chosenLen, rejectedLen) ==
    Max2(chosenLen + promptLen, rejectedLen + promptLen)

\* mutant: the target length without the rejected branch
PaddedLength_ChosenOnly(c, promptLen, chosenLen, rejectedLen) ==
    Max2(chosenLen + promptLen, c.max_length)

\* the length both branches are padded to before the final truncation
PaddedLength(c, promptLen, chosenLen, rejectedLen) ==
    Max2(Max2(chosenLen + promptLen, rejectedLen + promptLen), c.max_length)

\* mutant: the first max_length positions are kept
FinalTruncate_Head(s, c) == Take(s, c.max_length)

\* sample[key] = sample[key][-cfg.tokenizer.max_length:]
FinalTruncate(s, c) == LastN(s, c.max_length)

create_concatenated_inputs_and_labels(c, tok, prompt_input_ids, answer_input_ids, max_length) ==
    LET input_ids == LastN(prompt_input_ids \o answer_input_ids, max_length)
        attention_mask ==
            LastN(Ones(Len(prompt_input_ids) + Len(answer_input_ids)), max_length)
        sample == right_pad_tokens(input_ids, attention_mask, max_length,
                                   tok.pad_token_id)
        labels == RestoreEos(
                      MaskPad(MaskPrompt(sample.input_ids, Len(prompt_input_ids)),
                              tok.pad_token_id),
                      sample.attention_mask, c, tok)
    IN [input_ids |-> FinalTruncate(sample.input_ids, c),
        attention_mask |-> FinalTruncate(sample.attention_mask, c),
        labels |-> FinalTruncate(labels, c)]

\* mutant: the end marker is not counted in the encoding budget
AnswerIds_FullBudget(c, tok, text) ==
    LET ids == encode(text, c.max_length_answer)
    IN IF c.add_eos_token_to_answer THEN ids \o <<tok.eos_token_id>> ELSE ids

\* one element of get_answer_input_ids: the ids of one response text
AnswerIds(c, tok, text) ==
    LET ids == encode(text, c.max_length_answer
                            - (IF c.add_eos_token_to_answer THEN 1 ELSE 0))
    IN IF c.add_eos_token_to_answer THEN ids \o <<tok.eos_token_id>> ELSE ids

get_answer_input_ids(c, tok, chosenText, rejectedText) ==
    <<AnswerIds(c, tok, chosenText), AnswerIds(c, tok, rejectedText)>>

\* the base sample, its end marker stripped when configured
StrippedBase(c, tok, row) ==
    LET sample == BaseGetItem(c, tok, row)
    IN IF c.add_eos_token_to_answer
       THEN [input_ids |-> DropLast(sample.input_ids),
             attention_mask |-> DropLast(sample.attention_mask),
             labels |-> DropLast(sample.labels)]
       ELSE sample

\* mutant: the padding of the base sample is kept
input_ids_not_padded_All(sample) == sample.input_ids

input_ids_not_padded(sample) == SelectByMask(sample.input_ids, sample.attention_mask)

\* lines 81-103 of __getitem__: the dict built from the stripped base sample
\* and the two answer id sequences
FinishItem(c, tok, sample, answers) ==
    LET prompt == input_ids_not_padded(sample)
        max_length == PaddedLength(c, Len(prompt), Len(answers[1]), Len(answers[2]))
        chosen == create_concatenated_inputs_and_labels(c, tok, prompt, answers[1], max_length)
        rejected == create_concatenated_inputs_and_labels(c, tok, prompt, answers[2], max_length)
    IN [input_ids |-> sample.input_ids,
        attention_mask |-> sample.attention_mask,
        labels |-> sample.labels,
        chosen_input_ids |-> chosen.input_ids,
        chosen_attention_mask |-> chosen.attention_mask,
        chosen_labels |-> chosen.labels,
        rejected_input_ids |-> rejected.input_ids,
        rejected_attention_mask |-> rejected.attention_mask,
        rejected_labels |-> rejected.labels]

\* the dict __getitem__ returns
GetItemResult(c, tok, row, chosenText, rejectedText) ==
    FinishItem(c, tok, StrippedBase(c, tok, row),
               get_answer_input_ids(c, tok, chosenText, rejectedText))

\* the local variables of __getitem__ before the two branches are padded
GetItemLocals(c, tok, row, chosenText, rejectedText) ==
    LET sample == StrippedBase(c, tok, row)
        answers == get_answer_input_ids(c, tok, chosenText, rejectedText)
        prompt == input_ids_not_padded(sample)
        max_length == PaddedLength(c, Len(prompt), Len(answers[1]), Len(answers[2]))
    IN [input_ids_not_padded |-> prompt,
        chosen_input_ids |-> answers[1],
        rejected_input_ids |-> answers[2],
        max_length |-> max_length,
        \* input_ids of create_concatenated_inputs_and_labels before right_pad_tokens
        chosen_concatenated |-> LastN(prompt \o answers[1], max_length),
        rejected_concatenated |-> LastN(prompt \o answers[2], max_length)]

----------------------------------------------------------------------------
(* Actions of the dataset *)

\* mutant: no assertion
ConstructorAccepts_Always(c) == TRUE

\* the assertion that opens __init__
ConstructorAccepts(c) == c.limit_chained_samples

\* CustomDataset.__init__(df, cfg)
Construct ==
    /\ phase = "new"
    /\ IF ConstructorAccepts(cfg)
       THEN /\ phase' = "ready"
            /\ base_initialised' = TRUE
            /\ chosen_answers' = <<df.chosen_response>>
            /\ rejected_answer' = <<df.rejected_response>>
       ELSE /\ phase' = "failed"
            /\ UNCHANGED <<base_initialised, chosen_answers, rejected_answer>>
    /\ UNCHANGED <<cfg, tokenizer, df, item, lp, getitem_locals, workers, st>>

\* CustomDataset.__getitem__(idx), idx the one row of the table
GetItem ==
    /\ phase = "ready"
    /\ item' = GetItemResult(cfg, tokenizer, df, chosen_answers[1], rejected_answer[1])
    /\ getitem_locals' = GetItemLocals(cfg, tokenizer, df, chosen_answers[1],
                                       rejected_answer[1])
    /\ UNCHANGED <<cfg, tokenizer, df, phase, base_initialised, chosen_answers,
                   rejected_answer, lp, workers, st>>

NoLp == [no_lp |-> TRUE]

Configs(maxLengths, answerLengths) ==
    [limit_chained_samples : BOOLEAN,
     add_eos_token_to_answer : BOOLEAN,
     max_length : maxLengths,
     max_length_answer : answerLengths]

Tokenizers == [pad_token_id : PadIds, eos_token_id : TokenIds]

Init ==
    /\ cfg \in Configs(1..MaxMaxLength, 1..MaxLengthAnswer)
    /\ tokenizer \in Tokenizers
    /\ df \in [context : SeqsUpTo(TokenIds, MaxContextLen),
               chosen_response : SeqsUpTo(TokenIds, MaxTextLen),
               rejected_response : SeqsUpTo(TokenIds, MaxTextLen)]
    /\ phase = "new"
    /\ base_initialised = FALSE
    /\ chosen_answers = Unset
    /\ rejected_answer = Unset
    /\ item = NoItem
    /\ lp = NoLp
    /\ getitem_locals = NoLocals
    /\ workers = NoWorkers
    /\ st = NoSettings

Next == Construct \/ GetItem

Spec == Init /\ [][Next]_vars

\* The sample of the end-to-end example: prompt-context length 5, chosen answer
\* of 3 ids, rejected answer of 7 ids, tokenizer max_length 10.  An answer's
\* ids include the end marker when one is appended.
InitExample ==
    /\ cfg \in Configs({10}, {7})
    /\ tokenizer \in Tokenizers
    /\ LET eos == IF cfg.add_eos_token_to_answer THEN 1 ELSE 0
       IN df \in [context : [1..5 -> TokenIds],
                  chosen_response : [1..(3 - eos) -> TokenIds],
                  rejected_response : {[i \in 1..(7 - eos) |-> t] : t \in TokenIds}]
    /\ phase = "new"
    /\ base_initialised = FALSE
    /\ chosen_answers = Unset
    /\ rejected_answer = Unset
    /\ item = NoItem
    /\ lp = NoLp
    /\ getitem_locals = NoLocals
    /\ workers = NoWorkers
    /\ st = NoSettings

SpecExample == InitExample /\ [][Next]_vars

----------------------------------------------------------------------------
(* Batch log-probability scorer, one batch row *)

RECURSIVE Pow2(_)
Pow2(n) == IF n = 0 THEN 1 ELSE 2 * Pow2(n - 1)

RECURSIVE FloorLog2(_)
FloorLog2(n) == IF n <= 1 THEN 0 ELSE 1 + FloorLog2(n \div 2)

RECURSIVE SumOver(_, _)
SumOver(f, S) ==
    IF S = {} THEN 0
    ELSE LET x == CHOOSE y \in S : TRUE IN f[x] + SumOver(f, S \ {x})

\* log_softmax over the vocabulary of one position, in base 2 and rounded:
\* row[k] - log(sum_v exp(row[v])), a function of the whole row
LogSoftmax(row) ==
    LET lse == FloorLog2(SumOver([v \in DOMAIN row |-> Pow2(row[v])], DOMAIN row))
    IN [k \in DOMAIN row |-> row[k] - lse]

\* mutant: ignored positions are scored with the dummy label 0
get_batch_logps_Unmasked(logits, labels) ==
    SumOver([i \in 1..Len(labels) |->
                LogSoftmax(logits[i])[IF labels[i] # IgnoreIndex THEN labels[i] ELSE 0]],
            1..Len(labels))

\* the sum, over the positions whose label is not the ignore sentinel, of the
\* log-probability of the label at that position
get_batch_logps(logits, labels) ==
    SumOver([i \in 1..Len(labels) |->
                IF labels[i] # IgnoreIndex THEN LogSoftmax(logits[i])[labels[i]] ELSE 0],
            1..Len(labels))

LogitRows == [TokenIds -> LogitValues]

HugeRows == {[v \in TokenIds |-> h] : h \in HugeLogits}

\* logps = get_batch_logps(logits=logits, labels=labels)
Score ==
    /\ lp # NoLp
    /\ lp.stage = "fresh"
    /\ lp' = [lp EXCEPT !.stage = "scored",
                        !.logps = get_batch_logps(lp.logits, lp.labels)]
    /\ UNCHANGED <<cfg, tokenizer, df, phase, base_initialised, chosen_answers,
                   rejected_answer, item, getitem_locals, workers, st>>

\* one round of the loop: old_logits = clone(logits); logits[0, i] = value;
\* logps_1 = get_batch_logps(logits=logits, labels=labels)
Perturb ==
    /\ lp # NoLp
    /\ lp.stage = "scored"
    /\ \E i \in 1..Len(lp.labels) : \E row \in LogitRows \cup HugeRows :
          /\ lp.labels[i] = IgnoreIndex
          /\ LET changed == [lp.logits EXCEPT ![i] = row]
             IN lp' = [lp EXCEPT !.stage = "perturbed",
                                 !.pos = i,
                                 !.old_logits = lp.logits,
                                 !.logits = changed,
                                 !.logps_1 = get_batch_logps(changed, lp.labels)]
    /\ UNCHANGED <<cfg, tokenizer, df, phase, base_initialised, chosen_answers,
                   rejected_answer, item, getitem_locals, workers, st>>

\* logits = old_logits
Restore ==
    /\ lp # NoLp
    /\ lp.stage = "perturbed"
    /\ lp' = [lp EXCEPT !.stage = "scored", !.logits = lp.old_logits]
    /\ UNCHANGED <<cfg, tokenizer, df, phase, base_initialised, chosen_answers,
                   rejected_answer, item, getitem_locals, workers, st>>

InitLogps ==
    /\ cfg = [limit_chained_samples |-> TRUE, add_eos_token_to_answer |-> FALSE,
              max_length |-> 1, max_length_answer |-> 1]
    /\ tokenizer = [pad_token_id |-> 0, eos_token_id |-> 0]
    /\ df = [context |-> <<>>, chosen_response |-> <<>>, rejected_response |-> <<>>]
    /\ phase = "new"
    /\ base_initialised = FALSE
    /\ chosen_answers = Unset
    /\ rejected_answer = Unset
    /\ item = NoItem
    /\ getitem_locals = NoLocals
    /\ workers = NoWorkers
    /\ st = NoSettings
    /\ \E logits \in [1..MaxSeqLen -> LogitRows] :
       \E labels \in [1..MaxSeqLen -> TokenIds \cup {IgnoreIndex}] :
          lp = [stage |-> "fresh", logits |-> logits, labels |-> labels,
                old_logits |-> logits, pos |-> 0, logps |-> 0, logps_1 |-> 0]

NextLogps == Score \/ Perturb \/ Restore

SpecLogps == InitLogps /\ [][NextLogps]_vars

----------------------------------------------------------------------------
(* Concurrent item construction: each worker runs one __getitem__ call on the
   shared dataset, in three steps that interleave freely *)

\* mutant: the encoded ids are kept on the dataset in place of the texts
SelfAfterGetItem_CachesIds(self, answers) ==
    [chosen_answers |-> <<answers[1]>>, rejected_answer |-> <<answers[2]>>]

\* the attributes of the dataset after get_answer_input_ids has read them:
\* no statement of __getitem__ or of the methods it calls assigns to self
SelfAfterGetItem(self, answers) == self

\* sample = super().__getitem__(idx); the end marker stripped
WorkerStart(w) ==
    /\ workers # NoWorkers
    /\ workers[w].pc = "idle"
    /\ workers' = [workers EXCEPT ![w].pc = "stripped",
                                  ![w].sample = StrippedBase(cfg, tokenizer, df)]
    /\ UNCHANGED <<cfg, tokenizer, df, phase, base_initialised, chosen_answers,
                   rejected_answer, item, lp, getitem_locals, st>>

\* chosen_input_ids, rejected_input_ids = self.get_answer_input_ids(idx)
WorkerEncode(w) ==
    /\ workers # NoWorkers
    /\ workers[w].pc = "stripped"
    /\ LET answers == get_answer_input_ids(cfg, tokenizer, chosen_answers[1],
                                           rejected_answer[1])
           self == SelfAfterGetItem([chosen_answers |-> chosen_answers,
                                     rejected_answer |-> rejected_answer], answers)
       IN /\ workers' = [workers EXCEPT ![w].pc = "encoded", ![w].answers = answers]
          /\ chosen_answers' = self.chosen_answers
          /\ rejected_answer' = self.rejected_answer
    /\ UNCHANGED <<cfg, tokenizer, df, phase, base_initialised, item, lp,
                   getitem_locals, st>>

\* both branches built and the dict returned
WorkerReturn(w) ==
    /\ workers # NoWorkers
    /\ workers[w].pc = "encoded"
    /\ workers' = [workers EXCEPT
                      ![w].pc = "returned",
                      ![w].result = FinishItem(cfg, tokenizer, workers[w].sample,
                                               workers[w].answers)]
    /\ UNCHANGED <<cfg, tokenizer, df, phase, base_initialised, chosen_answers,
                   rejected_answer, item, lp, getitem_locals, st>>

\* a constructed dataset over one row, no call begun
InitConcurrent ==
    /\ cfg \in {c \in Configs({2}, {1, 2}) : c.limit_chained_samples}
    /\ tokenizer \in Tokenizers
    /\ df \in [context : [1..1 -> TokenIds],
               chosen_response : SeqsUpTo(TokenIds, 1),
               rejected_response : SeqsUpTo(TokenIds, 1)]
    /\ phase = "ready"
    /\ base_initialised = TRUE
    /\ chosen_answers = <<df.chosen_response>>
    /\ rejected_answer = <<df.rejected_response>>
    /\ item = NoItem
    /\ lp = NoLp
    /\ getitem_locals = NoLocals
    /\ workers = [w \in 1..NumWorkers |->
                     [pc |-> "idle", sample |-> NoItem, answers |-> <<>>,
                      result |-> NoItem]]
    /\ st = NoSettings

NextConcurrent ==
    \E w \in 1..NumWorkers : WorkerStart(w) \/ WorkerEncode(w) \/ WorkerReturn(w)

SpecConcurrent == InitConcurrent /\ [][NextConcurrent]_vars

----------------------------------------------------------------------------
(* User settings and secrets: app_utils/utils/setting_utils.py.  A settings
   key is the sequence of the words its name is made of. *)

PASSWORDS_PHRASES == {"token", "key"}

\* the keys of default_cfg.user_settings
UserSettingKeys ==
    {<<"default", "aws", "bucket", "name">>,
     <<"default", "aws", "access", "key">>,
     <<"default", "huggingface", "api", "token">>,
     <<"credential", "saver">>}

\* any(password in key for password in PASSWORDS_PHRASES)
ContainsPasswordPhrase(key) == \E i \in DOMAIN key : key[i] \in PASSWORDS_PHRASES

SECRET_KEYS == {key \in UserSettingKeys : ContainsPasswordPhrase(key)}

Keyring == "Keyring"
NoSave == "Do not save credentials permanently"
EnvFile == ".env File"

\* Secrets.names()
SecretsNames == {Keyring, NoSave, EnvFile}

None == "<None>"            \* no entry under a name
ClientValues == {"", "s"}   \* what q.client holds for a secret key

\* tuple(secret_name): the characters of the name
TupleOfName(secret_name) ==
    CASE secret_name = Keyring -> {"K", "e", "y", "r", "i", "n", "g"}
      [] secret_name = EnvFile -> {".", "e", "n", "v", " ", "F", "i", "l"}
      [] secret_name = NoSave ->
             {"D", "o", " ", "n", "t", "s", "a", "v", "e", "c", "r", "d", "i",
              "l", "p", "m", "y"}

\* handler.delete(name) of the backend called backend, on the stores
\* [keyring, env_exists, env]; a locked keyring raises KeyringLocked, which
\* KeyRingSaver.delete swallows
DeleteSecret(stores, backend, name, locked) ==
    CASE backend = Keyring ->
             IF locked THEN stores
             ELSE [stores EXCEPT !.keyring[name] = None]
      [] backend = EnvFile ->
             IF stores.env_exists THEN [stores EXCEPT !.env[name] = None]
             ELSE stores
      [] backend = NoSave -> stores

\* handler.save(name, password); a locked keyring is dealt with by the caller
SaveSecret(stores, backend, name, password) ==
    CASE backend = Keyring -> [stores EXCEPT !.keyring[name] = password]
      [] backend = EnvFile ->
             [stores EXCEPT !.env_exists = TRUE, !.env[name] = password]
      [] backend = NoSave -> stores

\* mutant: nothing is cleared
ClearSecrets_Nothing(stores, name, excludes, locked) == stores

\* _clear_secrets(q, name, excludes): delete name in every backend whose name
\* is not in excludes (the three deletions commute)
ClearSecrets(stores, name, excludes, locked) ==
    LET todo == {b \in SecretsNames : b \notin excludes}
        s1 == IF Keyring \in todo THEN DeleteSecret(stores, Keyring, name, locked)
              ELSE stores
        s2 == IF NoSave \in todo THEN DeleteSecret(s1, NoSave, name, locked) ELSE s1
    IN IF EnvFile \in todo THEN DeleteSecret(s2, EnvFile, name, locked) ELSE s2

\* handler.save raises: the keyring is locked
SaveRaises(backend, locked) == backend = Keyring /\ locked

\* the body of the loop of save_user_settings for one key: the stores after it
SaveOneKey(stores, secret_name, name, value, locked) ==
    LET cleared == ClearSecrets(stores, name, TupleOfName(secret_name), locked)
    IN IF value # "" /\ ~SaveRaises(secret_name, locked)
       THEN SaveSecret(cleared, secret_name, name, value)
       ELSE cleared

RECURSIVE SaveAllKeys(_, _, _, _, _)
SaveAllKeys(stores, secret_name, keys, client, locked) ==
    IF keys = {} THEN stores
    ELSE LET name == CHOOSE k \in keys : TRUE
         IN SaveAllKeys(SaveOneKey(stores, secret_name, name, client[name], locked),
                        secret_name, keys \ {name}, client, locked)

\* save_user_settings(q): q.client holds the values of the settings form and
\* the selected credential_saver ("" selects the default)
SaveUserSettings ==
    /\ st # NoSettings
    /\ \E client \in [SECRET_KEYS -> ClientValues] :
       \E saver \in SecretsNames \cup {""} :
       \E locked \in BOOLEAN :
          LET secret_name == IF saver # "" THEN saver ELSE st.default_saver
              stores == SaveAllKeys([keyring |-> st.keyring,
                                     env_exists |-> st.env_exists,
                                     env |-> st.env],
                                    secret_name, SECRET_KEYS, client, locked)
          IN st' = [st EXCEPT
                       !.client = client,
                       !.credential_saver = saver,
                       !.secret_name = secret_name,
                       !.yaml = {key \in UserSettingKeys : key \notin SECRET_KEYS},
                       !.keyring = stores.keyring,
                       !.env_exists = stores.env_exists,
                       !.env = stores.env,
                       !.keyring_locked = locked,
                       !.can_save_secrets =
                           ~\E key \in SECRET_KEYS :
                               client[key] # "" /\ SaveRaises(secret_name, locked),
                       !.saved = TRUE]
    /\ UNCHANGED <<cfg, tokenizer, df, phase, base_initialised, chosen_answers,
                   rejected_answer, item, lp, getitem_locals, workers>>

\* before the first save: the backends hold whatever earlier sessions left
InitSettings ==
    /\ cfg = [limit_chained_samples |-> TRUE, add_eos_token_to_answer |-> FALSE,
              max_length |-> 1, max_length_answer |-> 1]
    /\ tokenizer = [pad_token_id |-> 0, eos_token_id |-> 0]
    /\ df = [context |-> <<>>, chosen_response |-> <<>>, rejected_response |-> <<>>]
    /\ phase = "new"
    /\ base_initialised = FALSE
    /\ chosen_answers = Unset
    /\ rejected_answer = Unset
    /\ item = NoItem
    /\ lp = NoLp
    /\ getitem_locals = NoLocals
    /\ workers = NoWorkers
    /\ \E keyring \in [SECRET_KEYS -> {None, "s"}] :
       \E env \in [SECRET_KEYS -> {None, "s"}] :
       \E env_exists \in BOOLEAN :
       \E default_saver \in SecretsNames :
          /\ (~env_exists => \A key \in SECRET_KEYS : env[key] = None)
          /\ st = [client |-> [key \in SECRET_KEYS |-> ""],
                   credential_saver |-> "",
                   secret_name |-> default_saver,
                   default_saver |-> default_saver,
                   yaml |-> {},
                   keyring |-> keyring,
                   env_exists |-> env_exists,
                   env |-> env,
                   keyring_locked |-> FALSE,
                   can_save_secrets |-> TRUE,
                   saved |-> FALSE]

NextSettings == SaveUserSettings

SpecSettings == InitSettings /\ [][NextSettings]_vars

----------------------------------------------------------------------------
(* What the properties below speak of *)

Emitted == item # NoItem

\* the prompt context both branches start from, and its length P
Prompt == input_ids_not_padded(StrippedBase(cfg, tokenizer, df))

P == Len(Prompt)

ChosenIds == AnswerIds(cfg, tokenizer, df.chosen_response)

RejectedIds == AnswerIds(cfg, tokenizer, df.rejected_response)

\* the shared target length L and the leading positions the final truncation drops
L == Max2(Max2(P + Len(ChosenIds), P + Len(RejectedIds)), cfg.max_length)

Dropped == L - cfg.max_length

ChosenBranch ==
    [input_ids |-> item.chosen_input_ids,
     attention_mask |-> item.chosen_attention_mask,
     labels |-> item.chosen_labels,
     answer |-> ChosenIds]

RejectedBranch ==
    [input_ids |-> item.rejected_input_ids,
     attention_mask |-> item.rejected_attention_mask,
     labels |-> item.rejected_labels,
     answer |-> RejectedIds]

Branches == {ChosenBranch, RejectedBranch}

\* real (prompt or answer) tokens a branch holds after the final truncation
RealCount(b) == Max2(0, P + Len(b.answer) - Dropped)

\* prompt tokens a branch holds after the final truncation
PromptKept == Max2(0, P - Dropped)

\* s without its first n elements
DropFirst(s, n) == IF n >= Len(s) THEN <<>> ELSE SubSeq(s, n + 1, Len(s))

Pads(n) == [i \in 1..n |-> tokenizer.pad_token_id]

----------------------------------------------------------------------------
(* C1: each of the six chosen_ / rejected_ fields an item carries has length
   exactly cfg.tokenizer.max_length, whatever the prompt and answer lengths. *)
C1_LengthIsMaxLength ==
    Emitted =>
        /\ Len(item.chosen_input_ids) = cfg.max_length
        /\ Len(item.chosen_attention_mask) = cfg.max_length
        /\ Len(item.chosen_labels) = cfg.max_length
        /\ Len(item.rejected_input_ids) = cfg.max_length
        /\ Len(item.rejected_attention_mask) = cfg.max_length
        /\ Len(item.rejected_labels) = cfg.max_length

\* an item whose rejected answer alone is longer than max_length, beside a
\* chosen branch shorter than max_length
C1_Witness ==
    /\ Emitted
    /\ Len(RejectedIds) > cfg.max_length
    /\ P + Len(ChosenIds) < cfg.max_length

(* C2: with limit_chained_samples false the constructor raises before the base
   dataset is initialised and before chosen_answers / rejected_answer are
   built, and no item is ever produced. *)
C2_ConstructionFails ==
    ~cfg.limit_chained_samples =>
        /\ phase \in {"new", "failed"}
        /\ base_initialised = FALSE
        /\ chosen_answers = Unset
        /\ rejected_answer = Unset
        /\ item = NoItem

C2_Witness == ~cfg.limit_chained_samples /\ phase = "failed"

(* C3: replacing the logits at a position whose label is the ignore sentinel
   by any value leaves the result of get_batch_logps unchanged. *)
C3_MaskInvariance ==
    (lp # NoLp /\ lp.stage = "perturbed") => lp.logps_1 = lp.logps

\* a masked position took the out-of-range value while another position is scored
C3_Witness ==
    /\ lp # NoLp
    /\ lp.stage = "perturbed"
    /\ lp.labels[lp.pos] = IgnoreIndex
    /\ lp.logits[lp.pos] \in HugeRows
    /\ \E j \in 1..Len(lp.labels) : lp.labels[j] # IgnoreIndex
    /\ lp.logps # 0

(* C4 as stated: in both branches the label at every emitted position with
   index below the prompt-context length P is the ignore sentinel. *)
C4_Original_LabelsBelowP ==
    Emitted =>
        \A b \in Branches :
            \A i \in 1..Min2(P, Len(b.labels)) : b.labels[i] = IgnoreIndex

(* C4 amended: in both branches the label at every emitted position that holds
   a prompt-context token, the positions below P - (L - max_length), is the
   ignore sentinel. *)
C4_PromptLabelsIgnored ==
    Emitted =>
        \A b \in Branches :
            \A i \in 1..PromptKept : b.labels[i] = IgnoreIndex

\* the final truncation drops leading positions and a non-pad prompt token stays
C4_Witness ==
    /\ Emitted
    /\ Dropped > 0
    /\ PromptKept > 0
    /\ item.chosen_input_ids[1] # tokenizer.pad_token_id

(* C5 as stated: attention_mask[i] is 1 exactly at the positions holding a real
   token whose id is not the pad token id, 0 elsewhere. *)
C5_Original_MaskIffNonPadReal ==
    Emitted =>
        \A b \in Branches :
            \A i \in 1..Len(b.attention_mask) :
                (b.attention_mask[i] = 1)
                    <=> (i <= RealCount(b) /\ b.input_ids[i] # tokenizer.pad_token_id)

(* C5 amended: attention_mask[i] is 1 exactly at the positions holding a real
   (prompt or answer) token, whatever its id, and 0 at every padding position. *)
C5_MaskIffReal ==
    Emitted =>
        \A b \in Branches :
            \A i \in 1..Len(b.attention_mask) :
                /\ b.attention_mask[i] \in {0, 1}
                /\ (b.attention_mask[i] = 1) <=> (i <= RealCount(b))

\* the appended end marker equals the pad token id and is attended, while the
\* branch also holds padding
C5_Witness ==
    /\ Emitted
    /\ cfg.add_eos_token_to_answer
    /\ tokenizer.eos_token_id = tokenizer.pad_token_id
    /\ RealCount(ChosenBranch) > 0
    /\ RealCount(ChosenBranch) < cfg.max_length
    /\ item.chosen_attention_mask[RealCount(ChosenBranch)] = 1
    /\ item.chosen_input_ids[RealCount(ChosenBranch)] = tokenizer.pad_token_id

(* C6: with add_eos_token_to_answer and pad_token_id = eos_token_id, the label
   at the last position of a branch whose attention_mask is non-zero is
   eos_token_id, not the ignore sentinel. *)
C6_EosLabelRestored ==
    (Emitted /\ cfg.add_eos_token_to_answer
             /\ tokenizer.pad_token_id = tokenizer.eos_token_id) =>
        \A b \in Branches :
            Attended(b.attention_mask) # {} =>
                b.labels[MaxOf(Attended(b.attention_mask))] = tokenizer.eos_token_id

C6_Witness ==
    /\ Emitted
    /\ cfg.add_eos_token_to_answer
    /\ tokenizer.pad_token_id = tokenizer.eos_token_id
    /\ \A b \in Branches : Attended(b.attention_mask) # {}
    /\ Dropped > 0

(* C7 as stated: for prompt-context length 5, a chosen answer of 3 ids, a
   rejected answer of 7 ids and max_length 10, L is 12, the rejected branch is
   its last 10 tokens without padding and the chosen branch is its 8 real
   tokens followed by 2 pad tokens. *)
C7_Original_EightRealTwoPads ==
    Emitted =>
        /\ L = 12
        /\ item.chosen_input_ids = (Prompt \o ChosenIds) \o Pads(2)
        /\ Attended(item.chosen_attention_mask) = 1..8
        /\ item.rejected_input_ids = DropFirst(Prompt \o RejectedIds, 2)
        /\ Attended(item.rejected_attention_mask) = 1..10

(* C7 amended: for the same sample L is 12 and both branches are the last 10
   positions of their padded sequences, the earliest 2 prompt tokens dropped:
   the chosen branch is its remaining 6 real tokens (3 prompt, 3 answer)
   followed by 4 pad tokens, the rejected branch fills all 10 positions. *)
C7_SixRealFourPads ==
    Emitted =>
        /\ L = 12
        /\ item.chosen_input_ids = DropFirst(Prompt \o ChosenIds, 2) \o Pads(4)
        /\ Len(DropFirst(Prompt \o ChosenIds, 2)) = 6
        /\ item.chosen_attention_mask = <<1, 1, 1, 1, 1, 1, 0, 0, 0, 0>>
        /\ item.rejected_input_ids = DropFirst(Prompt \o RejectedIds, 2)
        /\ item.rejected_attention_mask = <<1, 1, 1, 1, 1, 1, 1, 1, 1, 1>>

\* the example's item, its lengths as the example gives them
C7_Witness ==
    /\ Emitted
    /\ P = 5
    /\ Len(ChosenIds) = 3
    /\ Len(RejectedIds) = 7
    /\ cfg.max_length = 10
    /\ Len(item.chosen_input_ids) = 10

(* C8: the passthrough input_ids, attention_mask and labels of an item all have
   length exactly cfg.tokenizer.max_length, with or without
   add_eos_token_to_answer. *)
C8_BaseLengthIsMaxLength ==
    Emitted =>
        /\ Len(item.input_ids) = cfg.max_length
        /\ Len(item.attention_mask) = cfg.max_length
        /\ Len(item.labels) = cfg.max_length

(* C9: in each branch the attention_mask is a run of 1s followed only by 0s:
   no position i < j has attention_mask[i] = 0 and attention_mask[j] = 1. *)
C9_MaskIsPrefixOfOnes ==
    Emitted =>
        \A b \in Branches :
            \A i, j \in 1..Len(b.attention_mask) :
                i < j => ~(b.attention_mask[i] = 0 /\ b.attention_mask[j] = 1)

\* a branch that lost leading positions and holds both 1s and 0s
C9_Witness ==
    /\ Emitted
    /\ Dropped > 0
    /\ \E i, j \in 1..Len(item.chosen_attention_mask) :
          item.chosen_attention_mask[i] = 1 /\ item.chosen_attention_mask[j] = 0

(* C10 as stated: the real tokens of a branch are the most recent
   min(max_length, P + A) tokens of its own prompt+answer concatenation,
   whatever the other branch's answer length. *)
C10_Original_OwnMostRecent ==
    Emitted =>
        \A b \in Branches :
            LET kept == LastN(Prompt \o b.answer, cfg.max_length)
            IN /\ b.input_ids = kept \o Pads(cfg.max_length - Len(kept))
               /\ Attended(b.attention_mask) = 1..Len(kept)

(* C10 amended: the real tokens of a branch are its prompt+answer concatenation
   without its oldest L - max_length tokens, L the target length shared by both
   branches; nothing is dropped when both branches fit max_length. *)
C10_SharedDrop ==
    Emitted =>
        \A b \in Branches :
            LET kept == DropFirst(Prompt \o b.answer, Dropped)
            IN /\ b.input_ids = kept \o Pads(cfg.max_length - Len(kept))
               /\ Attended(b.attention_mask) = 1..Len(kept)

\* the longer rejected branch makes the chosen branch lose tokens although the
\* chosen branch fits max_length
C10_Witness ==
    /\ Emitted
    /\ Dropped > 0
    /\ P + Len(ChosenIds) <= cfg.max_length
    /\ RealCount(ChosenBranch) > 0

(* C11 as stated: in each branch labels[i] is the ignore sentinel or
   input_ids[i]; it is the ignore sentinel at every prompt-token position and
   at every position with attention_mask 0, and it equals input_ids[i] at
   every answer-token position. *)
C11_Original_AnswerLabelsActive ==
    Emitted =>
        \A b \in Branches :
            \A i \in 1..Len(b.labels) :
                /\ b.labels[i] \in {IgnoreIndex, b.input_ids[i]}
                /\ i <= PromptKept => b.labels[i] = IgnoreIndex
                /\ b.attention_mask[i] = 0 => b.labels[i] = IgnoreIndex
                /\ (PromptKept < i /\ i <= RealCount(b)) => b.labels[i] = b.input_ids[i]

(* C11 amended: as stated, except that at an answer-token position the label
   equals input_ids[i] only if that id is not the pad token id or, with
   add_eos_token_to_answer, the position is the last one with attention_mask
   1; at any other answer-token position the label is the ignore sentinel. *)
C11_LabelsIgnoreOrId ==
    Emitted =>
        \A b \in Branches :
            \A i \in 1..Len(b.labels) :
                /\ b.labels[i] \in {IgnoreIndex, b.input_ids[i]}
                /\ i <= PromptKept => b.labels[i] = IgnoreIndex
                /\ b.attention_mask[i] = 0 => b.labels[i] = IgnoreIndex
                /\ (PromptKept < i /\ i <= RealCount(b)) =>
                       IF \/ b.input_ids[i] # tokenizer.pad_token_id
                          \/ (cfg.add_eos_token_to_answer /\ i = RealCount(b))
                       THEN b.labels[i] = b.input_ids[i]
                       ELSE b.labels[i] = IgnoreIndex

\* an answer token equal to the pad token id with an ignored label, followed by
\* an answer token with an active label
C11_Witness ==
    /\ Emitted
    /\ \E i \in 1..Len(item.chosen_labels) :
          /\ PromptKept < i
          /\ i < RealCount(ChosenBranch)
          /\ item.chosen_input_ids[i] = tokenizer.pad_token_id
          /\ item.chosen_labels[i] = IgnoreIndex
          /\ item.chosen_labels[i + 1] = item.chosen_input_ids[i + 1]

(* C12: both branches of a sample are padded to one target length
   L = max(P + len(chosen_ids), P + len(rejected_ids), max_length); L is never
   below max_length nor below either branch's token count, so cutting a
   concatenation to its last L tokens removes nothing. *)
C12_SharedTargetLength ==
    getitem_locals # NoLocals =>
        LET loc == getitem_locals
            pLen == Len(loc.input_ids_not_padded)
            cLen == pLen + Len(loc.chosen_input_ids)
            rLen == pLen + Len(loc.rejected_input_ids)
        IN /\ loc.max_length \in {cLen, rLen, cfg.max_length}
           /\ loc.max_length >= cfg.max_length
           /\ loc.max_length >= cLen
           /\ loc.max_length >= rLen
           /\ loc.chosen_concatenated = loc.input_ids_not_padded \o loc.chosen_input_ids
           /\ loc.rejected_concatenated = loc.input_ids_not_padded \o loc.rejected_input_ids

\* the rejected branch sets L above max_length and above the chosen branch
C12_Witness ==
    /\ getitem_locals # NoLocals
    /\ getitem_locals.max_length > cfg.max_length
    /\ Len(getitem_locals.rejected_concatenated) = getitem_locals.max_length
    /\ Len(getitem_locals.chosen_concatenated) < getitem_locals.max_length

(* C13: the chosen and rejected sequences share their prompt prefix: for some
   k the first k input_ids of both are the same k prompt-context tokens, the
   answer tokens of each branch start at position k, and the prompt context is
   the part of the base sample with attention_mask 1. *)
C13_SharedPromptPrefix ==
    Emitted =>
        LET prompt == SelectByMask(item.input_ids, item.attention_mask)
            pLen == Len(prompt)
            dropped == Max2(Max2(pLen + Len(ChosenIds), pLen + Len(RejectedIds)),
                            cfg.max_length) - cfg.max_length
            k == Max2(0, pLen - dropped)
            keptPrompt == DropFirst(prompt, pLen - k)
        IN /\ Take(item.chosen_input_ids, k) = keptPrompt
           /\ Take(item.rejected_input_ids, k) = keptPrompt
           /\ \A b \in Branches :
                 LET keptAnswer == DropFirst(b.answer, Max2(0, dropped - pLen))
                 IN SubSeq(b.input_ids, k + 1, k + Len(keptAnswer)) = keptAnswer

\* a padded base sample, a kept prompt token and two answers that differ at once
C13_Witness ==
    /\ Emitted
    /\ \E i \in 1..Len(item.attention_mask) : item.attention_mask[i] = 0
    /\ PromptKept > 0
    /\ PromptKept < cfg.max_length
    /\ Len(ChosenIds) > 0
    /\ Len(RejectedIds) > 0
    /\ item.chosen_input_ids[PromptKept + 1] # item.rejected_input_ids[PromptKept + 1]

(* C15: each answer id sequence of get_answer_input_ids has at most
   max_length_answer ids; with add_eos_token_to_answer the text is encoded
   with budget max_length_answer - 1, cut on the right, and one eos_token_id
   is appended as the last id; each response is encoded from its own text. *)
C15_AnswerBudget ==
    getitem_locals # NoLocals =>
        \A a \in {<<getitem_locals.chosen_input_ids, df.chosen_response>>,
                  <<getitem_locals.rejected_input_ids, df.rejected_response>>} :
            /\ Len(a[1]) <= cfg.max_length_answer
            /\ IF cfg.add_eos_token_to_answer
               THEN a[1] = Take(a[2], cfg.max_length_answer - 1)
                               \o <<tokenizer.eos_token_id>>
               ELSE a[1] = Take(a[2], cfg.max_length_answer)

\* a chosen text cut to make room for the end marker, beside another rejected text
C15_Witness ==
    /\ getitem_locals # NoLocals
    /\ cfg.add_eos_token_to_answer
    /\ Len(df.chosen_response) > cfg.max_length_answer - 1
    /\ cfg.max_length_answer > 1
    /\ df.rejected_response # df.chosen_response
    /\ Len(getitem_locals.chosen_input_ids) = cfg.max_length_answer

(* C16: an answer token whose id is the pad token id has attention_mask 1 and
   the ignore label, unless add_eos_token_to_answer is set and it is at the
   last position with non-zero attention_mask, where its label is
   eos_token_id. *)
C16_PadIdAnswerMasked ==
    Emitted =>
        \A b \in Branches :
            \A i \in 1..Len(b.labels) :
                (/\ PromptKept < i
                 /\ i <= RealCount(b)
                 /\ b.input_ids[i] = tokenizer.pad_token_id) =>
                    /\ b.attention_mask[i] = 1
                    /\ IF cfg.add_eos_token_to_answer /\ i = RealCount(b)
                       THEN b.labels[i] = tokenizer.eos_token_id
                       ELSE b.labels[i] = IgnoreIndex

\* with eos = pad, an inner answer token equal to the pad id is ignored while
\* the end marker after it keeps its label
C16_Witness ==
    /\ Emitted
    /\ cfg.add_eos_token_to_answer
    /\ tokenizer.eos_token_id = tokenizer.pad_token_id
    /\ RealCount(RejectedBranch) > PromptKept + 1
    /\ item.rejected_input_ids[RealCount(RejectedBranch) - 1] = tokenizer.pad_token_id
    /\ item.rejected_attention_mask[RealCount(RejectedBranch) - 1] = 1
    /\ item.rejected_labels[RealCount(RejectedBranch) - 1] = IgnoreIndex
    /\ item.rejected_labels[RealCount(RejectedBranch)] = tokenizer.eos_token_id

(* C17: with add_eos_token_to_answer and max_length_answer <= max_length every
   branch keeps its final end-of-sequence token after both truncations: its
   last position with attention_mask 1 holds eos_token_id with a label other
   than the ignore sentinel. *)
C17_EosSurvives ==
    (Emitted /\ cfg.add_eos_token_to_answer
             /\ cfg.max_length_answer <= cfg.max_length) =>
        \A b \in Branches :
            /\ Attended(b.attention_mask) # {}
            /\ LET last == MaxOf(Attended(b.attention_mask))
               IN /\ b.input_ids[last] = tokenizer.eos_token_id
                  /\ b.labels[last] # IgnoreIndex

\* the longest answers the budget allows, leading positions dropped, eos = pad
C17_Witness ==
    /\ Emitted
    /\ cfg.add_eos_token_to_answer
    /\ cfg.max_length_answer = cfg.max_length
    /\ tokenizer.eos_token_id = tokenizer.pad_token_id
    /\ Dropped > 0
    /\ Len(RejectedIds) = cfg.max_length_answer
    /\ Len(ChosenIds) = 1

(* C14: item construction is pure: under any interleaving of concurrent
   __getitem__ calls every call returns the dict a single sequential call
   returns, two calls for the same index return equal dicts, and no step
   changes the dataset's chosen_answers, rejected_answer, cfg or tokenizer. *)
C14_ItemConstructionPure ==
    [][/\ chosen_answers' = chosen_answers
       /\ rejected_answer' = rejected_answer
       /\ cfg' = cfg
       /\ tokenizer' = tokenizer
       /\ \A w \in 1..NumWorkers :
             workers'[w].pc = "returned" =>
                 workers'[w].result = GetItemResult(cfg, tokenizer, df,
                                                    df.chosen_response,
                                                    df.rejected_response)
       /\ \A v, w \in 1..NumWorkers :
             (workers'[v].pc = "returned" /\ workers'[w].pc = "returned") =>
                 workers'[v].result = workers'[w].result]_vars

\* one call has returned while another, begun before, is still between its steps
C14_Witness ==
    /\ workers # NoWorkers
    /\ \E v, w \in 1..NumWorkers :
          /\ v # w
          /\ workers[v].pc = "returned"
          /\ workers[w].pc = "encoded"
          /\ workers[v].result # NoItem
    /\ cfg.add_eos_token_to_answer

\* the secret key is stored in the backend of that name (handler.load finds it)
StoredIn(backend, key) ==
    CASE backend = Keyring -> st.keyring[key] # None
      [] backend = EnvFile -> st.env_exists /\ st.env[key] # None
      [] backend = NoSave -> FALSE

SaveCompleted == st # NoSettings /\ st.saved /\ st.can_save_secrets

(* C18 as stated: after a save without a secrets exception every secret key is
   stored in the selected backend if and only if its client value is not
   empty, it is stored in no other backend, and no secret key is in the
   user-settings YAML file. *)
C18_Original_StoredIffNonEmpty ==
    SaveCompleted =>
        /\ \A key \in SECRET_KEYS :
              /\ StoredIn(st.secret_name, key) <=> st.client[key] # ""
              /\ \A other \in {Keyring, EnvFile} \ {st.secret_name} :
                    ~StoredIn(other, key)
        /\ st.yaml \cap SECRET_KEYS = {}

(* C18 amended: after a save without a secrets exception, for every secret
   key: it is stored in the .env file if and only if the .env file is the
   selected backend and the client value is not empty; provided the keyring
   was not locked during the save, it is stored in the keyring if and only if
   the keyring is the selected backend and the client value is not empty; with
   "Do not save credentials permanently" selected it is thus stored nowhere;
   no secret key is in the user-settings YAML file. *)
C18_SecretsFollowSelection ==
    SaveCompleted =>
        /\ \A key \in SECRET_KEYS :
              /\ StoredIn(EnvFile, key)
                     <=> (st.secret_name = EnvFile /\ st.client[key] # "")
              /\ ~st.keyring_locked =>
                     (StoredIn(Keyring, key)
                          <=> (st.secret_name = Keyring /\ st.client[key] # ""))
        /\ st.yaml \cap SECRET_KEYS = {}
        /\ st.yaml # {}

\* a completed save with the .env file selected: one secret with a value is
\* stored there, another with an empty value is not
C18_Witness ==
    /\ SaveCompleted
    /\ st.secret_name = EnvFile
    /\ ~st.keyring_locked
    /\ \E key \in SECRET_KEYS : st.client[key] # "" /\ StoredIn(EnvFile, key)
    /\ \E key \in SECRET_KEYS : st.client[key] = "" /\ ~StoredIn(EnvFile, key)

====
